---- MODULE Spec2Model ----
(***************************************************************************)
(* Model of src/algoritimoST.py: a bounded random walk that decides        *)
(* whether a path exists between two vertices of an adjacency matrix       *)
(* (random_walk), the query around it (existe_caminho) and the path        *)
(* reconstruction from the predecessor map (reconstruir_caminho).          *)
(*                                                                         *)
(* Python lists are 0-indexed: a graph is a function 0..n-1 -> (0..n-1 ->  *)
(* {0,1}).  The list `caminho` is a TLA+ sequence, so the Python path[k]   *)
(* is caminho[k+1].  A dict is a function whose DOMAIN is its key set.     *)
(***************************************************************************)
EXTENDS Integers, Sequences, FiniteSets, TLC

\* ---------------------------------------------------------------- bounds
\* General graphs: every 0/1 matrix with at most MaxN vertices.
MaxN == 2
\* Vertices of the predecessor maps given directly to reconstruir_caminho.
RecN == 3
\* Length at which the model stops growing the list of a reconstruction
\* that never ends (larger than every vertex count of the model).
MaxCaminho == 8

\* ------------------------------------------------------ values and helpers
\* Python's None (distinct from every vertex index and every input index).
None == -2

\* len(grafo)
Tamanho(g) == Cardinality(DOMAIN g)

\* A list of rows (as written in the source) as a 0-indexed matrix.
Matriz(linhas) ==
    [r \in 0..(Len(linhas) - 1) |-> [c \in 0..(Len(linhas) - 1) |-> linhas[r + 1][c + 1]]]

\* Doctest graph of random_walk / existe_caminho: the 4-cycle 0-1, 0-2, 1-3, 2-3.
GrafoDoctest ==
    Matriz(<< <<0, 1, 1, 0>>,
              <<1, 0, 0, 1>>,
              <<1, 0, 0, 1>>,
              <<0, 1, 1, 0>> >>)

\* Demo graph with 6 vertices.
GrafoDemo6 ==
    Matriz(<< <<0, 1, 1, 0, 0, 0>>,
              <<1, 0, 0, 1, 1, 0>>,
              <<1, 0, 0, 0, 0, 1>>,
              <<0, 1, 0, 0, 0, 0>>,
              <<0, 1, 0, 0, 0, 1>>,
              <<0, 0, 1, 0, 1, 0>> >>)

\* Demo graph with 5 vertices, vertex 4 isolated.
GrafoDemo5 ==
    Matriz(<< <<0, 1, 0, 1, 0>>,
              <<1, 0, 1, 0, 0>>,
              <<0, 1, 0, 1, 0>>,
              <<1, 0, 1, 0, 0>>,
              <<0, 0, 0, 0, 0>> >>)

\* Every adjacency matrix over {0,1} with k vertices (directed edges and
\* self-loops included: the code only reads the row of the current vertex).
Matrizes(k) == [0..(k - 1) -> [0..(k - 1) -> {0, 1}]]

Grafos ==
    UNION {Matrizes(k) : k \in 0..MaxN} \cup {GrafoDoctest, GrafoDemo6, GrafoDemo5}

\* Indices a caller may pass: -1 and len(grafo) are the out-of-range ones.
Indices(g) == (-1)..Tamanho(g)

\* 2*(n**3), line 82
LimiteMut(k) == 2 * k * k
Limite(k) == 2 * k * k * k

\* line 130: the bounds test of existe_caminho
ForaDoLimiteMut(g, s, t) ==
    s < 0 \/ s >= Tamanho(g) \/ t < 0
ForaDoLimite(g, s, t) ==
    s < 0 \/ s >= Tamanho(g) \/ t < 0 \/ t >= Tamanho(g)

\* line 86: [idx for idx, conectado in enumerate(grafo[atual]) if conectado == 1]
VizinhosMut(g, a) == {idx \in DOMAIN g : g[idx][a] = 1}
Vizinhos(g, a) == {idx \in DOMAIN g[a] : g[a][idx] = 1}

\* line 93 (and the body of line 84): visitados[k] = p
Atribuir(v, k, p) ==
    [x \in (DOMAIN v) \cup {k} |-> IF x = k THEN p ELSE v[x]]

\* lines 83-84: if atual not in visitados: visitados[atual] = antecessor
RegistrarMut(v, k, p) == Atribuir(v, k, p)
Registrar(v, k, p) == IF k \in DOMAIN v THEN v ELSE Atribuir(v, k, p)

\* line 38: visitados.get(atual)
GetMut(v, k) == IF k \in DOMAIN v THEN k ELSE None
Get(v, k) == IF k \in DOMAIN v THEN v[k] ELSE None

\* line 39: caminho.reverse()
ReverseMut(s) == s
Reverse(s) == [k \in 1..Len(s) |-> s[Len(s) + 1 - k]]

\* ------------------------------------------------------------------ state
VARIABLES
    grafo,            \* argument of existe_caminho
    vertice_inicial,  \* argument of existe_caminho
    vertice_final,    \* argument of existe_caminho / reconstruir_caminho
    pc,               \* "inicio", "caminhada", "reconstruir", "fim"
    n,                \* len(grafo), line 133
    visitados,        \* the predecessor dict
    atual,            \* random_walk: current vertex
    antecessor,       \* random_walk: predecessor of the current vertex
    i,                \* random_walk: iteration counter
    encontrado,       \* first component returned by random_walk
    saida,            \* which return of random_walk was taken
    caminho,          \* reconstruir_caminho: the list being built
    atual_r,          \* reconstruir_caminho: its local `atual`
    resultado         \* the tuple returned by existe_caminho

vars == << grafo, vertice_inicial, vertice_final, pc, n, visitados, atual,
           antecessor, i, encontrado, saida, caminho, atual_r, resultado >>

\* State before a query: nothing computed yet.
Init ==
    /\ grafo \in Grafos
    /\ vertice_inicial \in Indices(grafo)
    /\ vertice_final \in Indices(grafo)
    /\ pc = "inicio"
    /\ n = 0
    /\ visitados = << >>
    /\ atual = None
    /\ antecessor = None
    /\ i = 0
    /\ encontrado = FALSE
    /\ saida = "nenhuma"
    /\ caminho = << >>
    /\ atual_r = None
    /\ resultado = << FALSE, << >>, 0 >>

\* existe_caminho, lines 130-131: an index out of range ends the query.
RejeitarIndices ==
    /\ pc = "inicio"
    /\ ForaDoLimite(grafo, vertice_inicial, vertice_final)
    /\ resultado' = << FALSE, << >>, 0 >>
    /\ pc' = "fim"
    /\ UNCHANGED << grafo, vertice_inicial, vertice_final, n, visitados, atual,
                    antecessor, i, encontrado, saida, caminho, atual_r >>

\* existe_caminho, lines 133-135: the call of random_walk with an empty dict.
IniciarCaminhada ==
    /\ pc = "inicio"
    /\ ~ForaDoLimite(grafo, vertice_inicial, vertice_final)
    /\ n' = Tamanho(grafo)
    /\ visitados' = << >>
    /\ atual' = vertice_inicial
    /\ antecessor' = None
    /\ i' = 0
    /\ pc' = "caminhada"
    /\ UNCHANGED << grafo, vertice_inicial, vertice_final, encontrado, saida,
                    caminho, atual_r, resultado >>

\* random_walk, lines 82-88, then existe_caminho line 141: the current vertex
\* has no neighbour.
SemVizinhos ==
    /\ pc = "caminhada"
    /\ i < Limite(n)
    /\ Vizinhos(grafo, atual) = {}
    /\ visitados' = Registrar(visitados, atual, antecessor)
    /\ encontrado' = FALSE
    /\ saida' = "sem_vizinhos"
    /\ resultado' = << FALSE, << >>, i >>
    /\ pc' = "fim"
    /\ UNCHANGED << grafo, vertice_inicial, vertice_final, n, atual, antecessor,
                    i, caminho, atual_r >>

\* random_walk, lines 82-96, the chosen neighbour is not the target.
Avancar ==
    /\ pc = "caminhada"
    /\ i < Limite(n)
    /\ \E vizinho \in Vizinhos(grafo, atual) :
          /\ vizinho # vertice_final
          /\ visitados' = Registrar(visitados, atual, antecessor)
          /\ i' = i + 1
          /\ antecessor' = atual
          /\ atual' = vizinho
    /\ UNCHANGED << grafo, vertice_inicial, vertice_final, pc, n, encontrado,
                    saida, caminho, atual_r, resultado >>

\* random_walk, lines 82-94, the chosen neighbour is the target; then
\* existe_caminho lines 137-138 and reconstruir_caminho lines 34-35.
Encontrar ==
    /\ pc = "caminhada"
    /\ i < Limite(n)
    /\ \E vizinho \in Vizinhos(grafo, atual) :
          /\ vizinho = vertice_final
          /\ visitados' = Atribuir(Registrar(visitados, atual, antecessor), vizinho, atual)
          /\ i' = i + 1
    /\ encontrado' = TRUE
    /\ saida' = "alvo"
    /\ caminho' = << >>
    /\ atual_r' = vertice_final
    /\ pc' = "reconstruir"
    /\ UNCHANGED << grafo, vertice_inicial, vertice_final, n, atual, antecessor,
                    resultado >>

\* random_walk, lines 82 and 97, then existe_caminho line 141: the budget is
\* used up.
Esgotar ==
    /\ pc = "caminhada"
    /\ ~(i < Limite(n))
    /\ encontrado' = FALSE
    /\ saida' = "limite"
    /\ resultado' = << FALSE, << >>, i >>
    /\ pc' = "fim"
    /\ UNCHANGED << grafo, vertice_inicial, vertice_final, n, visitados, atual,
                    antecessor, i, caminho, atual_r >>

\* reconstruir_caminho, lines 36-38: one iteration of the while loop.  A
\* list that has reached MaxCaminho is not grown further (the loop itself
\* goes on).
PassoReconstruir ==
    /\ pc = "reconstruir"
    /\ atual_r # None
    /\ caminho' = IF Len(caminho) < MaxCaminho THEN Append(caminho, atual_r) ELSE caminho
    /\ atual_r' = Get(visitados, atual_r)
    /\ UNCHANGED << grafo, vertice_inicial, vertice_final, pc, n, visitados, atual,
                    antecessor, i, encontrado, saida, resultado >>

\* reconstruir_caminho, lines 36, 39-40, then existe_caminho line 139.
FimReconstruir ==
    /\ pc = "reconstruir"
    /\ atual_r = None
    /\ caminho' = Reverse(caminho)
    /\ resultado' = << TRUE, Reverse(caminho), i >>
    /\ pc' = "fim"
    /\ UNCHANGED << grafo, vertice_inicial, vertice_final, n, visitados, atual,
                    antecessor, i, encontrado, saida, atual_r >>

Next ==
    \/ RejeitarIndices
    \/ IniciarCaminhada
    \/ SemVizinhos
    \/ Avancar
    \/ Encontrar
    \/ Esgotar
    \/ PassoReconstruir
    \/ FimReconstruir

Spec == Init /\ [][Next]_vars

\* The query is one sequential computation: it always takes its next step.
FairSpec == Spec /\ WF_vars(Next)

\* ------------------------------------------ reconstruir_caminho on its own
\* Every dict over the vertices 0..RecN-1 whose values are a vertex or None.
Dicts ==
    UNION {[ks -> (0..(RecN - 1)) \cup {None}] : ks \in SUBSET (0..(RecN - 1))}

\* reconstruir_caminho(visitados, vertice_final) called directly, lines 34-35.
InitRec ==
    /\ visitados \in Dicts
    /\ vertice_final \in 0..(RecN - 1)
    /\ grafo = << >>
    /\ vertice_inicial = None
    /\ pc = "reconstruir"
    /\ n = 0
    /\ atual = None
    /\ antecessor = None
    /\ i = 0
    /\ encontrado = TRUE
    /\ saida = "nenhuma"
    /\ caminho = << >>
    /\ atual_r = vertice_final
    /\ resultado = << FALSE, << >>, 0 >>

NextRec ==
    \/ PassoReconstruir
    \/ FimReconstruir

SpecRec == InitRec /\ [][NextRec]_vars

\* ------------------------------------------------------------ properties
IndiceValido(g, v) == v >= 0 /\ v < Tamanho(g)

IndicesValidos ==
    IndiceValido(grafo, vertice_inicial) /\ IndiceValido(grafo, vertice_final)

SemRepeticao(s) == \A a, b \in 1..Len(s) : s[a] = s[b] => a = b

\* The chain v, m[v], m[m[v]], ... up to the first lookup that gives None,
\* written with v last.
RECURSIVE Cadeia(_, _, _)
Cadeia(m, v, passos) ==
    IF v = None \/ passos = 0
    THEN << >>
    ELSE Append(Cadeia(m, IF v \in DOMAIN m THEN m[v] ELSE None, passos - 1), v)

\* C1: whenever existe_caminho returns found = true for in-range indices, the
\* returned path starts at the start vertex, ends at the target, and every
\* two consecutive vertices of it are joined by an edge of the graph.
C1_CaminhoValido ==
    (pc = "fim" /\ IndicesValidos /\ resultado[1]) =>
        LET p == resultado[2] IN
            /\ Len(p) >= 1
            /\ p[1] = vertice_inicial
            /\ p[Len(p)] = vertice_final
            /\ \A k \in 1..(Len(p) - 1) : grafo[p[k]][p[k + 1]] = 1

\* C1 witness: a found path of at least four vertices after a walk that took
\* more transitions than the path has edges.
C1_Witness ==
    /\ pc = "fim"
    /\ resultado[1]
    /\ Len(resultado[2]) >= 4
    /\ resultado[3] > Len(resultado[2])

\* C2: every query terminates and returns a result (the walk loop ends and
\* the reconstruction after a found walk ends).
C2_Termina == <>(pc = "fim")

\* C3: with start = target in range, the query returns (true, [start], 0)
\* and no neighbour transition is ever taken.
C3_InicioIgualFinal ==
    (IndicesValidos /\ vertice_inicial = vertice_final) =>
        /\ i = 0
        /\ pc = "fim" => resultado = << TRUE, << vertice_inicial >>, 0 >>

ConsultaDoctest ==
    grafo = GrafoDoctest /\ vertice_inicial = 0 /\ vertice_final = 3

C5_ForaDoLimite ==
    ~IndicesValidos =>
        /\ pc \in {"inicio", "fim"}
        /\ visitados = << >>
        /\ i = 0
        /\ saida = "nenhuma"
        /\ pc = "fim" => resultado = << FALSE, << >>, 0 >>

\* C5 witness: a returned query whose target is len(grafo) and whose start
\* is a valid vertex with an edge.
C5_Witness ==
    /\ pc = "fim"
    /\ vertice_final = Tamanho(grafo)
    /\ IndiceValido(grafo, vertice_inicial)
    /\ \E j \in DOMAIN grafo : grafo[vertice_inicial][j] = 1

InicioSemArestas ==
    /\ IndicesValidos
    /\ vertice_inicial # vertice_final
    /\ \A j \in DOMAIN grafo : grafo[vertice_inicial][j] # 1

\* C6: when the start vertex has no outgoing edge and the target is another
\* in-range vertex, the query returns (false, [], 0) and the counter is
\* never incremented.
C6_InicioIsolado ==
    InicioSemArestas =>
        /\ i = 0
        /\ pc = "fim" => resultado = << FALSE, << >>, 0 >>

\* C6 witness: the returned query from the isolated vertex 4 of the
\* 5-vertex demo graph.
C6_Witness ==
    /\ grafo = GrafoDemo5
    /\ vertice_inicial = 4
    /\ vertice_final = 0
    /\ pc = "fim"
    /\ saida = "sem_vizinhos"

Teto == 2 * Tamanho(grafo) * Tamanho(grafo) * Tamanho(grafo)

\* C7 as stated: the counter stays in [0, 2*n^3], and the count a walk
\* returns equals 2*n^3 exactly when the loop exits by exhausting the budget.
C7_TetoSoPorLimite ==
    /\ i \in 0..Teto
    /\ saida # "nenhuma" => (i = Teto <=> saida = "limite")

\* C7 amended: the counter starts at 0, grows by exactly 1 per neighbour
\* transition and by nothing else, and stays in [0, 2*n^3]; a walk that
\* exits by exhausting the budget returns 2*n^3, a dead end returns less
\* than 2*n^3, and a target hit returns a count in [1, 2*n^3].
C7_Contador ==
    /\ [](/\ i \in 0..Teto
          /\ pc = "inicio" => i = 0
          /\ saida = "limite" => i = Teto
          /\ saida = "sem_vizinhos" => i < Teto
          /\ saida = "alvo" => i >= 1
          /\ (pc = "fim" /\ IndicesValidos) => resultado[3] = i)
    /\ [][i' = IF pc = "caminhada" /\ pc' # "fim" THEN i + 1 ELSE i]_vars

\* C7 witness: a walk that ended by exhausting its budget.
C7_Witness ==
    /\ pc = "fim"
    /\ saida = "limite"
    /\ resultado[3] = Teto
    /\ Teto > 0

\* C8: once a vertex has an entry in the predecessor map, no later step of
\* the walk changes that entry.
C8_PrimeiraVisita ==
    [][\A k \in DOMAIN visitados :
          k \in DOMAIN visitados' /\ visitados'[k] = visitados[k]]_vars

\* C9: reconstruir_caminho returns the chain target, map[target], ...
\* followed until the lookup gives None, with the target last; a target
\* absent from the map or mapped to None gives [target]; the map is not
\* changed.
C9_Reconstrucao ==
    /\ [](pc = "fim" =>
            /\ caminho = Cadeia(visitados, vertice_final, RecN + 1)
            /\ resultado[2] = caminho
            /\ caminho[Len(caminho)] = vertice_final
            /\ (vertice_final \notin DOMAIN visitados => caminho = << vertice_final >>)
            /\ (vertice_final \in DOMAIN visitados /\ visitados[vertice_final] = None
                   => caminho = << vertice_final >>))
    /\ [][visitados' = visitados]_vars

\* C9 witness: a returned chain of three vertices.
C9_Witness ==
    /\ pc = "fim"
    /\ Len(caminho) = 3
    /\ vertice_final \in DOMAIN visitados

\* C10: for in-range start # target, a found path has no repeated vertex
\* and at most n vertices; the reconstruction never collects a vertex
\* twice, and the target is not a key of the map while the walk goes on.
C10_CaminhoSimples ==
    (IndicesValidos /\ vertice_inicial # vertice_final) =>
        /\ pc = "caminhada" => vertice_final \notin DOMAIN visitados
        /\ pc \in {"reconstruir", "fim"} =>
              /\ SemRepeticao(caminho)
              /\ Len(caminho) <= Tamanho(grafo)
        /\ (pc = "fim" /\ resultado[1]) =>
              /\ SemRepeticao(resultado[2])
              /\ Len(resultado[2]) <= Tamanho(grafo)

\* C10 witness: a found path of at least three vertices returned after a
\* walk with more transitions than the graph has vertices.
C10_Witness ==
    /\ pc = "fim"
    /\ resultado[1]
    /\ vertice_inicial # vertice_final
    /\ Len(resultado[2]) >= 3
    /\ resultado[3] > Tamanho(grafo)

====
